---- MODULE Spec2Model ----
(***************************************************************************)
(* Model of zea/zea/data/datasets.py: the tuple normaliser, the directory  *)
(* scanner search_file_tree with its dataset_info.yaml cache, the Folder   *)
(* aggregator (construction, validate, get_shapes) and the Dataset facade. *)
(*                                                                         *)
(* The file system is part of the state: every directory holds container   *)
(* files (what h5py would find in them) and possibly a dataset_info.yaml.  *)
(* Every operation is one atomic action (the program is single-threaded),  *)
(* and records its arguments and its outcome in `call`, where they stay    *)
(* until the caller has taken the result (Return).                         *)
(***************************************************************************)
EXTENDS Integers, Sequences, FiniteSets, TLC

VARIABLES
    disk,     \* disk[d] = [files |-> name -> kind of container file, manifest |-> <<>> or <<text>>]
    folder,   \* <<>> or <<the Folder object constructed last>>
    call,     \* the operation in hand, with its arguments and outcome, or [op |-> "none"]
    cache,    \* history: cache[d] says where d's dataset_info.yaml comes from
    ops,      \* number of direct search_file_tree calls so far
    made,     \* number of Folder constructions so far
    env       \* number of file-system changes made from outside so far

vars == <<disk, folder, call, cache, ops, made, env>>

----------------------------------------------------------------------------
(* Bounds of the exploration *)

MaxOps == 2      \* direct calls of search_file_tree per behaviour
MaxFolders == 1  \* Folder constructions per behaviour
MaxEnv == 1      \* outside changes to the file system per behaviour
MaxLen == 2      \* elements of a list, tuple or dict given to convert_tuples_to_lists

----------------------------------------------------------------------------
(* Python values *)

None == "None"                     \* Python's None, where a str is optional
Truthy(s) == s # None /\ s # ""    \* bool(s) of an Optional[str]

\* A nested Python value: dict, list, tuple or scalar.  All four share one
\* record shape so that any two values can be compared.  A dict's keys are
\* hashable: a str, or a tuple of ints, which is written here as its repr.
TupleKeys == {"(1, 2)"}
Scalar(n)     == [kind |-> "scalar", keys |-> <<>>, items |-> <<>>, val |-> n]
PyList(xs)    == [kind |-> "list",   keys |-> <<>>, items |-> xs,   val |-> 0]
PyTuple(xs)   == [kind |-> "tuple",  keys |-> <<>>, items |-> xs,   val |-> 0]
PyDict(ks, xs) == [kind |-> "dict",  keys |-> ks,   items |-> xs,   val |-> 0]

\* A conversion of the outermost tuple only
convert_tuples_to_lists_Shallow(obj) ==
    IF obj.kind = "tuple" THEN PyList(obj.items) ELSE obj

\* A conversion that does not look into the tuples it converts
RECURSIVE convert_tuples_to_lists_OneLayer(_)
convert_tuples_to_lists_OneLayer(obj) ==
    IF obj.kind = "dict"
    THEN PyDict(obj.keys, [i \in DOMAIN obj.items |-> convert_tuples_to_lists_OneLayer(obj.items[i])])
    ELSE IF obj.kind = "list"
    THEN PyList([i \in DOMAIN obj.items |-> convert_tuples_to_lists_OneLayer(obj.items[i])])
    ELSE IF obj.kind = "tuple"
    THEN PyList(obj.items)
    ELSE obj

\* datasets.py:9-26
RECURSIVE convert_tuples_to_lists(_)
convert_tuples_to_lists(obj) ==
    IF obj.kind = "dict"
    THEN PyDict(obj.keys, [i \in DOMAIN obj.items |-> convert_tuples_to_lists(obj.items[i])])
    ELSE IF obj.kind \in {"list", "tuple"}
    THEN PyList([i \in DOMAIN obj.items |-> convert_tuples_to_lists(obj.items[i])])
    ELSE obj

\* Whether a value holds a tuple at any level, as a value or as a dict key
\* (what yaml tags !!python/tuple).
RECURSIVE HasTuple(_)
HasTuple(obj) ==
    \/ obj.kind = "tuple"
    \/ \E i \in DOMAIN obj.keys : obj.keys[i] \in TupleKeys
    \/ \E i \in DOMAIN obj.items : HasTuple(obj.items[i])

\* The shape h5py reports for a dataset: a tuple of ints.
ShapeOf(dims) == PyTuple([i \in DOMAIN dims |-> Scalar(dims[i])])
\* tuple(s) of a shape s (a tuple or a list of ints), as the sequence of its ints.
AsTuple(s) == [i \in DOMAIN s.items |-> s.items[i].val]

\* dict operations on a PyDict d
DictHas(d, k) == \E i \in DOMAIN d.keys : d.keys[i] = k
DictGet(d, k) == d.items[CHOOSE i \in DOMAIN d.keys : d.keys[i] = k]
DictSet(d, k, v) ==
    IF DictHas(d, k)
    THEN PyDict(d.keys, [i \in DOMAIN d.items |-> IF d.keys[i] = k THEN v ELSE d.items[i]])
    ELSE PyDict(Append(d.keys, k), Append(d.items, v))
\* d.setdefault(k, []) followed by d[k].append(v): datasets.py:92-94 and 100-102
DictAppend(d, k, v) ==
    IF DictHas(d, k)
    THEN DictSet(d, k, PyList(Append(DictGet(d, k).items, v)))
    ELSE DictSet(d, k, PyList(<<v>>))

----------------------------------------------------------------------------
(* The file system and the container files *)

Dirs == {"d1", "d2"}
FileNames == {"a.h5", "b.h5", "a.hdf5"}
Ext(n) == IF n = "a.hdf5" THEN "hdf5" ELSE "h5"
\* Path ordering of the names of one directory ("a.h5" < "a.hdf5" < "b.h5").
NameLess(m, n) ==
    \/ m = "a.h5" /\ n \in {"a.hdf5", "b.h5"}
    \/ m = "a.hdf5" /\ n = "b.h5"

\* What h5py finds in a container file of each kind: whether h5py.File opens
\* it, and its entries in the order f.keys() yields them.  An entry is a
\* dataset (has a shape), a group (has none) or a broken link (f[name] raises).
H5Dataset(n, dims) == [name |-> n, type |-> "dataset", dims |-> dims]
H5Group(n)   == [name |-> n, type |-> "group",   dims |-> <<>>]
H5Broken(n)  == [name |-> n, type |-> "broken",  dims |-> <<>>]
Handle(kind) ==
    CASE kind = "img23"  -> [openable |-> TRUE,  entries |-> <<H5Dataset("image", <<2, 3>>)>>]
      [] kind = "img24"  -> [openable |-> TRUE,
                             entries |-> <<H5Dataset("image", <<2, 4>>), H5Dataset("label", <<2>>)>>]
      [] kind = "nokey"  -> [openable |-> TRUE,
                             entries |-> <<H5Group("grp"), H5Dataset("label", <<2>>)>>]
      [] kind = "torn"   -> [openable |-> TRUE,
                             entries |-> <<H5Dataset("image", <<2, 3>>), H5Broken("label")>>]
      [] kind = "locked" -> [openable |-> FALSE, entries |-> <<>>]
FileKinds == {"img23", "img24", "nokey", "torn", "locked"}

\* `name in f` (true of a broken link as well; false of the empty name)
In(h, n) == \E i \in DOMAIN h.entries : h.entries[i].name = n
Entry(h, n) == h.entries[CHOOSE i \in DOMAIN h.entries : h.entries[i].name = n]

\* sorted(S) for a set of file names
RECURSIVE Sorted(_)
Sorted(S) ==
    IF S = {} THEN <<>>
    ELSE LET m == CHOOSE x \in S : \A y \in S : ~NameLess(y, x)
         IN  <<m>> \o Sorted(S \ {m})
Glob(files, ext) == {n \in DOMAIN files : Ext(n) = ext}
\* A discovery that sorts the files of both extensions together
hdf5_files_SortedTogether(files) == Sorted(DOMAIN files)

\* datasets.py:77
hdf5_files(files) == Sorted(Glob(files, "h5")) \o Sorted(Glob(files, "hdf5"))

\* yaml: a dumped document, or text that does not parse.  safe_load refuses a
\* document that carries a python/tuple tag.
Garbled == [garbled |-> TRUE]
yaml_dump(metadata) == [garbled |-> FALSE, doc |-> metadata]
yaml_parses(text) == ~text.garbled /\ ~HasTuple(text.doc.file_shapes)
yaml_safe_load(text) == text.doc

----------------------------------------------------------------------------
(* search_file_tree *)

\* A key requirement that a forced rescan is exempt from, whatever write is
KeyRequired_UnlessRedo(key, redo, write) == key = None /\ ~redo

\* A key requirement that knows no exemption
KeyRequired_Always(key, redo, write) == key = None

\* datasets.py:58: the key requirement
KeyRequired(key, redo, write) == key = None /\ ((~redo) \/ write)

\* A scanner that passes over a dataset_info.yaml it cannot parse
UseExisting_IfParses(redo, manifest) ==
    ~redo /\ manifest # <<>> /\ yaml_parses(manifest[1])

\* datasets.py:65: whether the existing dataset_info.yaml is used
UseExisting(redo, manifest) == ~redo /\ manifest # <<>>

\* A write decision that forgets read_only
ShouldWrite_IgnoringReadOnly(write, read_only) == write

\* datasets.py:121: whether dataset_info.yaml is written
ShouldWrite(write, read_only) == write /\ ~read_only

\* A write that spares a dataset_info.yaml already there
Persisted_UnlessPresent(manifest, metadata, write, read_only) ==
    IF ShouldWrite(write, read_only) /\ manifest = <<>>
    THEN <<yaml_dump(metadata)>> ELSE manifest

\* datasets.py:121-123: dataset_info.yaml after the fresh scan; open(.., 'w')
\* truncates what was there
Persisted(manifest, metadata, write, read_only) ==
    IF ShouldWrite(write, read_only) THEN <<yaml_dump(metadata)>> ELSE manifest

\* datasets.py:70-75
EmptyMetadata(d, key) ==
    [folder_path |-> d, primary_key |-> key, files |-> <<>>, file_shapes |-> PyDict(<<>>, <<>>)]

\* datasets.py:96-102: the loop over f.keys(), from entry i on.  A broken entry
\* raises at f[key_name]; what was appended to file_shapes before stays.
RECURSIVE CollectAll(_, _, _)
CollectAll(h, i, shapes) ==
    IF i > Len(h.entries) THEN [raised |-> FALSE, shapes |-> shapes, error |-> ""]
    ELSE LET e == h.entries[i] IN
         IF e.type = "broken"
         THEN [raised |-> TRUE, shapes |-> shapes, error |-> "KeyError"]
         ELSE IF e.type = "dataset"
         THEN CollectAll(h, i + 1, DictAppend(shapes, e.name, ShapeOf(e.dims)))
         ELSE CollectAll(h, i + 1, shapes)

\* datasets.py:89-94: the shape of the one requested key
CollectOne(h, k, shapes) ==
    IF ~In(h, k) THEN [raised |-> FALSE, shapes |-> shapes, error |-> ""]
    ELSE LET e == Entry(h, k) IN
         IF e.type = "broken"
         THEN [raised |-> TRUE, shapes |-> shapes, error |-> "KeyError"]
         ELSE IF e.type = "group"
         THEN [raised |-> TRUE, shapes |-> shapes, error |-> "AttributeError"]
         ELSE [raised |-> FALSE, shapes |-> DictAppend(shapes, k, ShapeOf(e.dims)), error |-> ""]

\* datasets.py:88: which of the two collections runs
CollectShapes(h, hdf5_key_for_length, shapes) ==
    IF Truthy(hdf5_key_for_length)
    THEN CollectOne(h, hdf5_key_for_length, shapes)
    ELSE CollectAll(h, 1, shapes)

\* datasets.py:105: whether the record gets a warning
MissingKey(h, key) == Truthy(key) /\ ~In(h, key)

\* datasets.py:82-85, 105-108: the record of a file that was read
FileInfo(d, n, h, key) ==
    IF MissingKey(h, key)
    THEN [path |-> <<d, n>>, name |-> n, warning |-> <<"Primary key not found in file", key>>]
    ELSE [path |-> <<d, n>>, name |-> n]

\* datasets.py:111-115: the record of a file that raised
ErrorInfo(d, n, e) == [path |-> <<d, n>>, name |-> n, error |-> e]

\* datasets.py:80-115: one iteration of the loop over hdf5_files
ProcessFile(metadata, d, n, kind, key, hdf5_key_for_length) ==
    LET h == Handle(kind) IN
    IF ~h.openable
    THEN [metadata EXCEPT !.files = Append(@, ErrorInfo(d, n, "OSError"))]
    ELSE LET c == CollectShapes(h, hdf5_key_for_length, metadata.file_shapes) IN
         IF c.raised
         THEN [metadata EXCEPT !.file_shapes = c.shapes,
                               !.files = Append(@, ErrorInfo(d, n, c.error))]
         ELSE [metadata EXCEPT !.file_shapes = c.shapes,
                               !.files = Append(@, FileInfo(d, n, h, key))]

\* A loop that a failing file ends
RECURSIVE ScanFiles_Aborting(_, _, _, _, _, _)
ScanFiles_Aborting(metadata, d, files, todo, key, hdf5_key_for_length) ==
    IF todo = <<>> THEN metadata
    ELSE LET m == ProcessFile(metadata, d, Head(todo), files[Head(todo)], key, hdf5_key_for_length)
         IN  IF "error" \in DOMAIN m.files[Len(m.files)] THEN m
             ELSE ScanFiles_Aborting(m, d, files, Tail(todo), key, hdf5_key_for_length)

\* datasets.py:79: the loop, over the files still to process
RECURSIVE ScanFiles(_, _, _, _, _, _)
ScanFiles(metadata, d, files, todo, key, hdf5_key_for_length) ==
    IF todo = <<>> THEN metadata
    ELSE ScanFiles(ProcessFile(metadata, d, Head(todo), files[Head(todo)], key, hdf5_key_for_length),
                   d, files, Tail(todo), key, hdf5_key_for_length)

\* The metadata left as collected, tuples and all
Normalized_Skipped(metadata) == metadata

\* datasets.py:118: the metadata holds tuples in file_shapes only (its other
\* values are strings, None and lists and dicts of them)
Normalized(metadata) ==
    [metadata EXCEPT !.file_shapes = convert_tuples_to_lists(@)]

\* datasets.py:69-118: the fresh scan's metadata
FreshMetadata(d, files, key, hdf5_key_for_length) ==
    Normalized(ScanFiles(EmptyMetadata(d, key), d, files, hdf5_files(files),
                         key, hdf5_key_for_length))

\* datasets.py:29-125.  dir is the directory's state; the result says how the
\* call ended, what it returned, which container files it opened, whether it
\* read dataset_info.yaml, whether it wrote it, and what it is afterwards.
search_file_tree(dir, d, key, hdf5_key_for_length, redo, write, read_only) ==
    IF KeyRequired(key, redo, write)
    THEN [outcome |-> "ValueError", value |-> <<>>, opened |-> <<>>,
          loaded |-> FALSE, wrote |-> FALSE, manifest |-> dir.manifest]
    ELSE IF UseExisting(redo, dir.manifest)
    THEN IF yaml_parses(dir.manifest[1])
         THEN [outcome |-> "return", value |-> <<yaml_safe_load(dir.manifest[1])>>,
               opened |-> <<>>, loaded |-> TRUE, wrote |-> FALSE, manifest |-> dir.manifest]
         ELSE [outcome |-> "YAMLError", value |-> <<>>, opened |-> <<>>,
               loaded |-> TRUE, wrote |-> FALSE, manifest |-> dir.manifest]
    ELSE LET metadata == FreshMetadata(d, dir.files, key, hdf5_key_for_length) IN
         [outcome |-> "return", value |-> <<metadata>>,
          opened |-> hdf5_files(dir.files), loaded |-> FALSE,
          wrote |-> ShouldWrite(write, read_only),
          manifest |-> Persisted(dir.manifest, metadata, write, read_only)]

\* The record of one call of search_file_tree: its arguments, its result r
\* and the directory's dataset_info.yaml before and after it.
CallRecord(r, dir, d, key, hdf5_key_for_length, redo, write, read_only) ==
    [op |-> "search_file_tree", folder_path |-> d, key |-> key,
     hdf5_key_for_length |-> hdf5_key_for_length,
     redo |-> redo, write |-> write, read_only |-> read_only,
     outcome |-> r.outcome, value |-> r.value, opened |-> r.opened, loaded |-> r.loaded,
     wrote |-> r.wrote, before |-> dir.manifest, after |-> r.manifest]
ScanCall(dir, d, key, hdf5_key_for_length, redo, write, read_only) ==
    CallRecord(search_file_tree(dir, d, key, hdf5_key_for_length, redo, write, read_only),
               dir, d, key, hdf5_key_for_length, redo, write, read_only)

----------------------------------------------------------------------------
(* Folder *)

\* search_file_tree_kwargs: every option is <<>> (not given) or <<value>>.
Kwargs(key, hdf5_key_for_length, redo, write, read_only) ==
    [key |-> key, hdf5_key_for_length |-> hdf5_key_for_length,
     redo |-> redo, write |-> write, read_only |-> read_only]
NoKwargs == Kwargs(<<>>, <<>>, <<>>, <<>>, <<>>)
Given(option, default) == IF option = <<>> THEN default ELSE option[1]

\* A merge in which the Folder's own arguments win over the caller's kwargs
search_kwargs_FolderWins(key, hdf5_key_for_length, read_only, kwargs) ==
    [key                 |-> key,
     hdf5_key_for_length |-> hdf5_key_for_length,
     read_only           |-> read_only,
     redo                |-> Given(kwargs.redo, FALSE),
     write               |-> Given(kwargs.write, TRUE)]

\* datasets.py:171-178, with the defaults of search_file_tree (datasets.py:31-35)
\* for the options neither the Folder nor the caller sets
search_kwargs(key, hdf5_key_for_length, read_only, kwargs) ==
    [key                 |-> Given(kwargs.key, key),
     hdf5_key_for_length |-> Given(kwargs.hdf5_key_for_length, hdf5_key_for_length),
     read_only           |-> Given(kwargs.read_only, read_only),
     redo                |-> Given(kwargs.redo, FALSE),
     write               |-> Given(kwargs.write, TRUE)]

\* datasets.py:181-184: the loop over folder_paths, from the i-th on.  A scan
\* that raises ends the loop (and the construction).
RECURSIVE SearchAll(_, _, _, _, _)
\* datasets.py:183-184: what follows the scan c of the i-th directory
SearchOn(dsk, paths, i, kw, scans, c) ==
    IF c.outcome # "return"
    THEN [disk |-> [dsk EXCEPT ![paths[i]].manifest = c.after],
          scans |-> Append(scans, c), raised |-> TRUE]
    ELSE SearchAll([dsk EXCEPT ![paths[i]].manifest = c.after], paths, i + 1, kw,
                   Append(scans, c))
SearchAll(dsk, paths, i, kw, scans) ==
    IF i > Len(paths) THEN [disk |-> dsk, scans |-> scans, raised |-> FALSE]
    ELSE SearchOn(dsk, paths, i, kw, scans,
                  ScanCall(dsk[paths[i]], paths[i], kw.key, kw.hdf5_key_for_length,
                           kw.redo, kw.write, kw.read_only))

\* A Folder that does not check its key
FolderKeyMissing_Unchecked(key) == FALSE

\* datasets.py:156: the Folder's own key check
FolderKeyMissing(key) == key = None

\* datasets.py:166-169, 181-184: the Folder once the scans r are done, or the
\* error of the scan that raised
Constructed(r, paths, key, hdf5_key_for_length, read_only) ==
    IF r.raised
    THEN [outcome |-> r.scans[Len(r.scans)].outcome, disk |-> r.disk,
          scans |-> r.scans, object |-> <<>>]
    ELSE [outcome |-> "return", disk |-> r.disk, scans |-> r.scans,
          object |-> <<[folder_paths |-> paths, key |-> key,
                        hdf5_key_for_length |-> hdf5_key_for_length,
                        read_only |-> read_only,
                        metadata |-> [j \in DOMAIN r.scans |-> r.scans[j].value[1]]]>>]

\* datasets.py:134-184
FolderInit(dsk, paths, key, hdf5_key_for_length, kwargs, read_only) ==
    IF FolderKeyMissing(key)
    THEN [outcome |-> "ValueError", disk |-> dsk, scans |-> <<>>, object |-> <<>>]
    ELSE Constructed(SearchAll(dsk, paths, 1,
                               search_kwargs(key, hdf5_key_for_length, read_only, kwargs), <<>>),
                     paths, key, hdf5_key_for_length, read_only)

\* A check that overlooks warnings
HasErrorOrWarning_ErrorOnly(file_info) == "error" \in DOMAIN file_info

\* datasets.py:194-196
HasErrorOrWarning(file_info) ==
    "error" \in DOMAIN file_info \/ "warning" \in DOMAIN file_info

\* datasets.py:200: shapes is non-empty and set(tuple(s) for s in shapes) has
\* more than one element
Inconsistent(shapes) ==
    shapes.items # <<>> /\ Cardinality({AsTuple(shapes.items[i]) : i \in DOMAIN shapes.items}) > 1

\* datasets.py:193-202: the body of the loop, for one metadata; TRUE when it
\* returns False
Fails(metadata) ==
    \/ \E i \in DOMAIN metadata.files : HasErrorOrWarning(metadata.files[i])
    \/ \E k \in DOMAIN metadata.file_shapes.items : Inconsistent(metadata.file_shapes.items[k])

\* A validation that also compares the shapes of different manifests
validate_AcrossManifests(metadatas) ==
    /\ \A j \in DOMAIN metadatas : ~Fails(metadatas[j])
    /\ \A i, j \in DOMAIN metadatas :
          \A a \in DOMAIN metadatas[i].file_shapes.keys, b \in DOMAIN metadatas[j].file_shapes.keys :
             metadatas[i].file_shapes.keys[a] = metadatas[j].file_shapes.keys[b] =>
                \A x \in DOMAIN metadatas[i].file_shapes.items[a].items,
                   y \in DOMAIN metadatas[j].file_shapes.items[b].items :
                   AsTuple(metadatas[i].file_shapes.items[a].items[x])
                      = AsTuple(metadatas[j].file_shapes.items[b].items[y])

\* datasets.py:186-204
RECURSIVE validate(_)
validate(metadatas) ==
    IF metadatas = <<>> THEN TRUE
    ELSE IF Fails(Head(metadatas)) THEN FALSE
    ELSE validate(Tail(metadatas))

\* An inner loop that keeps the shape an earlier manifest gave
RECURSIVE TakeFirstShapes_KeepingEarlier(_, _, _)
TakeFirstShapes_KeepingEarlier(file_shapes, k, all_shapes) ==
    IF k > Len(file_shapes.keys) THEN all_shapes
    ELSE LET shapes == file_shapes.items[k] IN
         TakeFirstShapes_KeepingEarlier(file_shapes, k + 1,
             IF shapes.items # <<>>
             THEN all_shapes @@ (file_shapes.keys[k] :> AsTuple(shapes.items[1]))
             ELSE all_shapes)

\* datasets.py:214-217: the inner loop over file_shapes.items(), from key k on
RECURSIVE TakeFirstShapes(_, _, _)
TakeFirstShapes(file_shapes, k, all_shapes) ==
    IF k > Len(file_shapes.keys) THEN all_shapes
    ELSE LET shapes == file_shapes.items[k] IN
         TakeFirstShapes(file_shapes, k + 1,
             IF shapes.items # <<>>
             THEN (file_shapes.keys[k] :> AsTuple(shapes.items[1])) @@ all_shapes
             ELSE all_shapes)

\* datasets.py:206-218; the result maps key names to shapes
RECURSIVE get_shapes_from(_, _)
get_shapes_from(metadatas, all_shapes) ==
    IF metadatas = <<>> THEN all_shapes
    ELSE get_shapes_from(Tail(metadatas),
                         TakeFirstShapes(Head(metadatas).file_shapes, 1, all_shapes))
get_shapes(metadatas) == get_shapes_from(metadatas, <<>>)

----------------------------------------------------------------------------
(* Dataset *)

\* datasets.py:245-252: the Dataset around the Folder that its constructor
\* builds from its own five arguments
Dataset(folder_object) == [folder |-> folder_object, key |-> folder_object.key]

\* datasets.py:254-260
Dataset_validate(self) == validate(self.folder.metadata)

\* datasets.py:262-268
Dataset_get_shapes(self) == get_shapes(self.folder.metadata)

----------------------------------------------------------------------------
(* The state machine *)

\* The values convert_tuples_to_lists is given: scalars, the lists, tuples and
\* dicts of at most MaxLen scalars, and the lists, tuples and dicts of at most
\* MaxLen scalars and shorter lists, tuples and dicts of scalars.  The dicts
\* are keyed by strs; an outer dict may have a tuple as its first key.
Atoms == {Scalar(1), Scalar(2)}
StrKeys == <<"a", "b", "c", "d">>
MixedKeys == <<"(1, 2)", "a", "b", "c">>
UpTo(S, n) == UNION {[1..m -> S] : m \in 0..n}
Containers(S, n, keys) ==
    {PyList(xs) : xs \in UpTo(S, n)} \cup {PyTuple(xs) : xs \in UpTo(S, n)}
        \cup {PyDict(SubSeq(ks, 1, Len(xs)), xs) : xs \in UpTo(S, n), ks \in keys}
Values ==
    Atoms \cup Containers(Atoms, MaxLen, {StrKeys, MixedKeys})
          \cup Containers(Atoms \cup Containers(Atoms, MaxLen - 1, {StrKeys}), MaxLen,
                          {StrKeys, MixedKeys})

\* The arguments the operations are called with
ScanDirs == {"d1"}
Keys == {None, "", "image"}
KeysForLength == {None, "image"}
PathLists == {<<"d1">>, <<"d1", "d2">>, <<"d2", "d1">>}
KwargsChoices ==
    {NoKwargs,
     Kwargs(<<>>, <<>>, <<TRUE>>, <<FALSE>>, <<>>),
     Kwargs(<<None>>, <<>>, <<>>, <<>>, <<>>),
     Kwargs(<<None>>, <<>>, <<TRUE>>, <<FALSE>>, <<>>),
     Kwargs(<<"label">>, <<"label">>, <<>>, <<>>, <<FALSE>>),
     Kwargs(<<>>, <<None>>, <<>>, <<>>, <<TRUE>>)}

\* The container files the directories start with
Files(a, b, c) ==
    LET has == {x \in {<<"a.h5", a>>, <<"b.h5", b>>, <<"a.hdf5", c>>} : x[2] # ""}
    IN  [n \in {x[1] : x \in has} |-> (CHOOSE x \in has : x[1] = n)[2]]
Layouts ==
    {[d1 |-> Files("img23", "img23", ""), d2 |-> Files("img24", "", "")],
     [d1 |-> Files("", "img23", "img24"), d2 |-> Files("", "", "")],
     [d1 |-> Files("torn", "nokey", ""),  d2 |-> Files("locked", "", "img23")]}

\* A dataset_info.yaml written by hand: one key without a shape
HandWritten ==
    yaml_dump([folder_path |-> "d1", primary_key |-> "image", files |-> <<>>,
               file_shapes |-> PyDict(<<"image", "label">>,
                                      <<PyList(<<>>), PyList(<<PyList(<<Scalar(2)>>)>>)>>)])
\* What the files are changed to from outside
OutsideKinds == {"img24", "locked"}
OutsideTexts == {Garbled, HandWritten}

Idle == call.op = "none"

Init ==
    /\ \E l \in Layouts : disk = [d \in Dirs |-> [files |-> l[d], manifest |-> <<>>]]
    /\ folder = <<>>
    /\ call = [op |-> "none"]
    /\ cache = [d \in Dirs |-> "none"]
    /\ ops = 0
    /\ made = 0
    /\ env = 0

\* The effect of the call c of search_file_tree
Scanning(c) ==
    /\ call' = c
    /\ disk' = [disk EXCEPT ![c.folder_path].manifest = c.after]
    /\ cache' = [cache EXCEPT ![c.folder_path] = IF c.wrote THEN "fresh" ELSE @]

\* A call of search_file_tree
Scan(d, key, hdf5_key_for_length, redo, write, read_only) ==
    /\ Idle
    /\ ops < MaxOps
    /\ Scanning(ScanCall(disk[d], d, key, hdf5_key_for_length, redo, write, read_only))
    /\ ops' = ops + 1
    /\ UNCHANGED <<folder, made, env>>

\* The effect of the construction r of a Folder
Making(r, paths, key, hdf5_key_for_length, kwargs, read_only) ==
    /\ call' = [op |-> "Folder", folder_path |-> paths, key |-> key,
                hdf5_key_for_length |-> hdf5_key_for_length,
                search_file_tree_kwargs |-> kwargs, read_only |-> read_only,
                outcome |-> r.outcome, scans |-> r.scans,
                before |-> [d \in Dirs |-> disk[d].manifest]]
    /\ disk' = r.disk
    /\ folder' = IF r.object # <<>> THEN r.object ELSE folder
    /\ cache' = [d \in Dirs |->
                   IF \E i \in DOMAIN r.scans : r.scans[i].folder_path = d /\ r.scans[i].wrote
                   THEN "fresh" ELSE cache[d]]

\* Folder(folder_path, key, hdf5_key_for_length, search_file_tree_kwargs, read_only)
NewFolder(paths, key, hdf5_key_for_length, kwargs, read_only) ==
    /\ Idle
    /\ made < MaxFolders
    /\ Making(FolderInit(disk, paths, key, hdf5_key_for_length, kwargs, read_only),
              paths, key, hdf5_key_for_length, kwargs, read_only)
    /\ made' = made + 1
    /\ UNCHANGED <<ops, env>>

\* A validate() that uses up the manifests it has looked at
Validate_Consuming ==
    /\ Idle
    /\ folder # <<>>
    /\ call' = [op |-> "validate", result |-> validate(folder[1].metadata)]
    /\ folder' = <<[folder[1] EXCEPT !.metadata = <<>>]>>
    /\ UNCHANGED <<disk, cache, ops, made, env>>

\* folder.validate()
Validate ==
    /\ Idle
    /\ folder # <<>>
    /\ call' = [op |-> "validate", result |-> validate(folder[1].metadata)]
    /\ UNCHANGED <<disk, folder, cache, ops, made, env>>

\* folder.get_shapes()
GetShapes ==
    /\ Idle
    /\ folder # <<>>
    /\ call' = [op |-> "get_shapes", result |-> get_shapes(folder[1].metadata)]
    /\ UNCHANGED <<disk, folder, cache, ops, made, env>>

\* dataset.validate(), of the Dataset that owns the Folder
DatasetValidate ==
    /\ Idle
    /\ folder # <<>>
    /\ call' = [op |-> "Dataset.validate", result |-> Dataset_validate(Dataset(folder[1]))]
    /\ UNCHANGED <<disk, folder, cache, ops, made, env>>

\* dataset.get_shapes(), of the Dataset that owns the Folder
DatasetGetShapes ==
    /\ Idle
    /\ folder # <<>>
    /\ call' = [op |-> "Dataset.get_shapes", result |-> Dataset_get_shapes(Dataset(folder[1]))]
    /\ UNCHANGED <<disk, folder, cache, ops, made, env>>

\* The caller has taken the result of the operation in hand
Return ==
    /\ ~Idle
    /\ call' = [op |-> "none"]
    /\ UNCHANGED <<disk, folder, cache, ops, made, env>>

Stale(c) == IF c = "fresh" THEN "stale" ELSE c

\* Outside the program: a container file is created or replaced
PutFile(d, n, kind) ==
    /\ Idle
    /\ env < MaxEnv
    /\ disk' = [disk EXCEPT ![d].files = (n :> kind) @@ @]
    /\ cache' = [cache EXCEPT ![d] = Stale(@)]
    /\ env' = env + 1
    /\ UNCHANGED <<folder, call, ops, made>>

\* Outside the program: a container file is deleted
RemoveFile(d, n) ==
    /\ Idle
    /\ env < MaxEnv
    /\ n \in DOMAIN disk[d].files
    /\ disk' = [disk EXCEPT ![d].files = [m \in DOMAIN @ \ {n} |-> @[m]]]
    /\ cache' = [cache EXCEPT ![d] = Stale(@)]
    /\ env' = env + 1
    /\ UNCHANGED <<folder, call, ops, made>>

\* Outside the program: dataset_info.yaml is damaged or written by hand
TamperManifest(d, text) ==
    /\ Idle
    /\ env < MaxEnv
    /\ disk' = [disk EXCEPT ![d].manifest = <<text>>]
    /\ cache' = [cache EXCEPT ![d] = "foreign"]
    /\ env' = env + 1
    /\ UNCHANGED <<folder, call, ops, made>>

\* A value is at hand, nothing else exists
ValueInit ==
    /\ \E x \in Values : call = [op |-> "value", obj |-> x]
    /\ disk = [d \in Dirs |-> [files |-> Files("", "", ""), manifest |-> <<>>]]
    /\ folder = <<>>
    /\ cache = [d \in Dirs |-> "none"]
    /\ ops = 0
    /\ made = 0
    /\ env = 0

\* convert_tuples_to_lists(obj) of the value at hand
Convert ==
    /\ call.op = "value"
    /\ call' = [op |-> "convert_tuples_to_lists", obj |-> call.obj,
                result |-> convert_tuples_to_lists(call.obj)]
    /\ UNCHANGED <<disk, folder, cache, ops, made, env>>

\* convert_tuples_to_lists of what convert_tuples_to_lists returned
ConvertResult ==
    /\ call.op = "convert_tuples_to_lists"
    /\ call' = [op |-> "convert_tuples_to_lists again", first |-> call.obj,
                obj |-> call.result, result |-> convert_tuples_to_lists(call.result)]
    /\ UNCHANGED <<disk, folder, cache, ops, made, env>>

\* The normaliser, applied to a value and to its own result
NormalizeNext == Convert \/ ConvertResult

\* The scanner, called directly on a directory whose files change under it
ScannerNext ==
    \/ \E d \in ScanDirs, key \in Keys, k \in KeysForLength, redo, write, read_only \in BOOLEAN :
          Scan(d, key, k, redo, write, read_only)
    \/ \E d \in ScanDirs, n \in FileNames, kind \in OutsideKinds : PutFile(d, n, kind)
    \/ \E d \in ScanDirs, n \in FileNames : RemoveFile(d, n)
    \/ \E d \in ScanDirs, text \in OutsideTexts : TamperManifest(d, text)
    \/ Return

\* Folders, constructed over the directories and queried
FolderNext ==
    \/ \E p \in PathLists, key \in Keys, k \in KeysForLength, kw \in KwargsChoices,
          read_only \in BOOLEAN :
          NewFolder(p, key, k, kw, read_only)
    \/ Validate
    \/ GetShapes
    \/ DatasetValidate
    \/ DatasetGetShapes
    \/ \E d \in ScanDirs, text \in OutsideTexts : TamperManifest(d, text)
    \/ Return

Next == ScannerNext \/ FolderNext

Spec == Init /\ [][Next]_vars
ScannerSpec == Init /\ [][ScannerNext]_vars
FolderSpec == Init /\ [][FolderNext]_vars
NormalizeSpec == ValueInit /\ [][NormalizeNext]_vars

----------------------------------------------------------------------------
(* Properties of convert_tuples_to_lists *)

Converted == call.op \in {"convert_tuples_to_lists", "convert_tuples_to_lists again"}

\* y is x with every tuple turned into a list: the same keys, the same
\* elements in the same order, the same scalars
RECURSIVE SameButTuples(_, _)
SameButTuples(x, y) ==
    /\ y.kind = (IF x.kind = "tuple" THEN "list" ELSE x.kind)
    /\ y.keys = x.keys
    /\ y.val = x.val
    /\ DOMAIN y.items = DOMAIN x.items
    /\ \A i \in DOMAIN x.items : SameButTuples(x.items[i], y.items[i])

\* The depth at which x holds a tuple deepest (0 when it holds none)
RECURSIVE TupleDepth(_, _)
TupleDepth(x, level) ==
    LET below == {TupleDepth(x.items[i], level + 1) : i \in DOMAIN x.items}
        here == IF x.kind = "tuple" THEN level ELSE 0
    IN  CHOOSE m \in below \cup {here} : \A n \in below \cup {here} : n <= m

\* Whether a value holds a tuple as a value (not as a dict key) at any level
RECURSIVE HasTupleValue(_)
HasTupleValue(obj) ==
    \/ obj.kind = "tuple"
    \/ \E i \in DOMAIN obj.items : HasTupleValue(obj.items[i])

\* The result has the keys, the element order and the scalars of the
\* argument; lists stay lists and scalars are returned unchanged
ValuesKept ==
    /\ SameButTuples(call.obj, call.result)
    /\ call.obj.kind = "list" => call.result.kind = "list"
    /\ call.obj.kind = "scalar" => call.result = call.obj

C12_Idempotent ==
    call.op = "convert_tuples_to_lists again" => call.result = call.obj

\* The second application is made on the result of converting a tuple of
\* tuples
C12_Witness ==
    /\ call.op = "convert_tuples_to_lists again"
    /\ call.first.kind = "tuple"
    /\ TupleDepth(call.first, 1) = 2
    /\ call.obj # call.first

----------------------------------------------------------------------------
(* Properties of search_file_tree *)

Scanned == call.op = "search_file_tree"
\* The state of the scanned directory when the call in hand began
DirBefore == [files |-> disk[call.folder_path].files, manifest |-> call.before]
\* The call in hand left the directory's dataset_info.yaml as it was
ManifestUntouched ==
    /\ ~call.wrote
    /\ call.after = call.before
    /\ disk[call.folder_path].manifest = call.before

\* C1: search_file_tree raises the key-required ValueError exactly when key is
\* None and (redo is false or write is true), whatever read_only is; it then
\* has read no manifest, opened no container file and written nothing.  With
\* key None, redo true and write false the scan succeeds.
C1_KeyRequirement ==
    Scanned =>
        /\ (call.outcome = "ValueError") <=> (call.key = None /\ (~call.redo \/ call.write))
        /\ call.outcome = "ValueError" =>
              ~call.loaded /\ call.opened = <<>> /\ ManifestUntouched
        /\ (call.key = None /\ call.redo /\ ~call.write) => call.outcome = "return"

\* The error is raised for a read-only call on a directory that has a manifest
C1_Witness ==
    /\ Scanned
    /\ call.outcome = "ValueError"
    /\ call.read_only /\ call.redo /\ call.write
    /\ call.before # <<>>

\* C3: a scan called with read_only=True never creates or modifies the
\* directory's manifest, whatever write and redo are and whether or not a
\* manifest exists; and it ends as the same call with read_only=False would,
\* returning the same manifest.
C3_ReadOnly ==
    (Scanned /\ call.read_only) =>
        /\ ManifestUntouched
        /\ LET r == search_file_tree(DirBefore, call.folder_path, call.key,
                                     call.hdf5_key_for_length, call.redo, call.write, FALSE)
           IN  r.outcome = call.outcome /\ r.value = call.value

\* A read-only forced rescan with write=True, over a manifest that differs
\* from the one it returns
C3_Witness ==
    /\ Scanned
    /\ call.read_only /\ call.write /\ call.redo
    /\ call.outcome = "return"
    /\ call.value[1].files # <<>>
    /\ call.before # <<>>
    /\ call.before[1] # yaml_dump(call.value[1])

\* C4: after a persisted scan of a directory, every later scan of it with
\* redo=False opens no container file and leaves the manifest unchanged, and
\* (unless it is rejected for its missing key) returns exactly the content
\* that was written, also when the container files have changed since.
C4_CacheReuse ==
    (Scanned /\ ~call.redo /\ call.before # <<>>
             /\ cache[call.folder_path] \in {"fresh", "stale"}) =>
        /\ call.opened = <<>>
        /\ ManifestUntouched
        /\ call.key # None =>
              call.outcome = "return" /\ call.value = <<call.before[1].doc>>

\* The cached manifest is returned although the directory no longer holds
\* the files it lists
C4_Witness ==
    /\ Scanned
    /\ ~call.redo
    /\ cache[call.folder_path] = "stale"
    /\ call.outcome = "return"
    /\ Len(call.value[1].files) # Cardinality(DOMAIN disk[call.folder_path].files)

\* A fresh scan: the call returned without loading the manifest
FreshScan == Scanned /\ call.outcome = "return" /\ ~call.loaded
\* The container file behind the i-th record of the fresh scan in hand
FileBehind(i) ==
    Handle(disk[call.folder_path].files[hdf5_files(disk[call.folder_path].files)[i]])
\* A container file that fails to open, or fails while the scan reads it
Unreadable(h, hdf5_key_for_length) ==
    \/ ~h.openable
    \/ /\ Truthy(hdf5_key_for_length)
       /\ \E i \in DOMAIN h.entries :
             h.entries[i].name = hdf5_key_for_length /\ h.entries[i].type # "dataset"
    \/ /\ ~Truthy(hdf5_key_for_length)
       /\ \E i \in DOMAIN h.entries : h.entries[i].type = "broken"

\* C5: a fresh scan never aborts because of a file: it returns a manifest
\* with exactly one record per discovered file, in discovery order; the
\* record of a file that fails to open or read has exactly the fields path,
\* name and error, and the files after it are still processed.
C5_NoAbort ==
    (Scanned /\ call.outcome # "ValueError" /\ ~call.loaded) =>
        /\ call.outcome = "return"
        /\ LET d == call.folder_path
               found == hdf5_files(disk[d].files)
               records == call.value[1].files
           IN  /\ Len(records) = Len(found)
               /\ \A i \in DOMAIN records :
                     /\ records[i].name = found[i]
                     /\ records[i].path = <<d, found[i]>>
                     /\ IF Unreadable(FileBehind(i), call.hdf5_key_for_length)
                        THEN DOMAIN records[i] = {"path", "name", "error"}
                        ELSE "error" \notin DOMAIN records[i]

\* The first file fails and the one after it is read
C5_Witness ==
    /\ FreshScan
    /\ Len(call.value[1].files) >= 2
    /\ "error" \in DOMAIN call.value[1].files[1]
    /\ "error" \notin DOMAIN call.value[1].files[2]

\* The shapes (as int sequences) that the files without an error record hold
\* under entry name k, in discovery order
ShapesOfGoodFiles(k) ==
    LET records == call.value[1].files
        good == SelectSeq([i \in DOMAIN records |-> i],
                          LAMBDA i : /\ "error" \notin DOMAIN records[i]
                                     /\ In(FileBehind(i), k)
                                     /\ Entry(FileBehind(i), k).type = "dataset")
    IN  [j \in DOMAIN good |-> Entry(FileBehind(good[j]), k).dims]

\* C6: in the manifest of a fresh scan, a file whose record carries an error
\* contributed no shape: every list of file_shapes holds exactly the shapes
\* of the files without an error.
C6_NoShapeFromFailedFile ==
    FreshScan =>
        LET fs == call.value[1].file_shapes IN
        \A k \in DOMAIN fs.keys :
            [j \in DOMAIN fs.items[k].items |-> AsTuple(fs.items[k].items[j])]
                = ShapesOfGoodFiles(fs.keys[k])

\* C7: in a fresh scan, the record of a successfully read file carries a
\* warning if and only if a key was given (any key but None) and it is not an
\* entry of the file; the warning does not keep the shapes of the file's
\* datasets out of file_shapes.
C7_WarningIffKeyMissing ==
    FreshScan =>
        LET records == call.value[1].files
            fs == call.value[1].file_shapes
        IN  \A i \in DOMAIN records :
               "error" \notin DOMAIN records[i] =>
                  /\ ("warning" \in DOMAIN records[i])
                        <=> (call.key # None /\ ~In(FileBehind(i), call.key))
                  /\ ("warning" \in DOMAIN records[i] /\ ~Truthy(call.hdf5_key_for_length)) =>
                        \A e \in DOMAIN FileBehind(i).entries :
                           FileBehind(i).entries[e].type = "dataset" =>
                              /\ DictHas(fs, FileBehind(i).entries[e].name)
                              /\ \E j \in DOMAIN DictGet(fs, FileBehind(i).entries[e].name).items :
                                    AsTuple(DictGet(fs, FileBehind(i).entries[e].name).items[j])
                                       = FileBehind(i).entries[e].dims

\* The entry names of the container files
EntryNames ==
    UNION {{Handle(kind).entries[i].name : i \in DOMAIN Handle(kind).entries} : kind \in FileKinds}
\* The list file_shapes holds for entry name k, as int sequences (empty when
\* k is no key of file_shapes)
ShapesListed(fs, k) ==
    IF DictHas(fs, k)
    THEN [j \in DOMAIN DictGet(fs, k).items |-> AsTuple(DictGet(fs, k).items[j])]
    ELSE <<>>

\* C15: in a fresh scan file_shapes is determined by the successfully read
\* files: with hdf5_key_for_length set it has no other key than that one;
\* the list of every entry name that is collected holds one shape per
\* successfully read file with a shaped entry of that name, in discovery
\* order; a name no such file has is no key; and no list is empty.
C15_FileShapes ==
    FreshScan =>
        LET fs == call.value[1].file_shapes IN
        /\ \A k \in DOMAIN fs.keys :
              /\ fs.items[k].items # <<>>
              /\ \A l \in DOMAIN fs.keys : fs.keys[l] = fs.keys[k] => l = k
              /\ Truthy(call.hdf5_key_for_length) => fs.keys[k] = call.hdf5_key_for_length
        /\ \A name \in EntryNames :
              (~Truthy(call.hdf5_key_for_length) \/ name = call.hdf5_key_for_length) =>
                 /\ DictHas(fs, name) <=> ShapesOfGoodFiles(name) # <<>>
                 /\ ShapesListed(fs, name) = ShapesOfGoodFiles(name)

\* C16: the manifest of a fresh scan has one record per container file of
\* the directory, the .h5 files first, sorted by filename, then the .hdf5
\* files, sorted by filename; no two records have the same path.
C16_DiscoveryOrder ==
    FreshScan =>
        LET records == call.value[1].files IN
        /\ {records[i].name : i \in DOMAIN records} = DOMAIN disk[call.folder_path].files
        /\ \A i, j \in DOMAIN records :
              i < j =>
                 /\ records[i].path # records[j].path
                 /\ Ext(records[i].name) = "hdf5" => Ext(records[j].name) = "hdf5"
                 /\ Ext(records[i].name) = Ext(records[j].name) =>
                        NameLess(records[i].name, records[j].name)

\* Two .h5 files come before a .hdf5 file whose name sorts between theirs
C16_Witness ==
    /\ FreshScan
    /\ Len(call.value[1].files) = 3
    /\ call.value[1].files[2].name = "b.h5"
    /\ call.value[1].files[3].name = "a.hdf5"
    /\ NameLess("a.hdf5", "b.h5")

\* C17: a fresh scan with write=True and read_only=False overwrites whatever
\* manifest the directory holds, and what is on disk afterwards loads as the
\* manifest the scan returns; a later scan with redo=False, made while the
\* container files are as they were at the last write, returns a manifest of
\* those files, and not an older one.
C17_PersistOverwrites ==
    Scanned =>
        LET d == call.folder_path IN
        /\ (FreshScan /\ call.write /\ ~call.read_only) =>
              /\ call.wrote
              /\ disk[d].manifest = call.after
              /\ Len(call.after) = 1
              /\ yaml_parses(call.after[1])
              /\ yaml_safe_load(call.after[1]) = call.value[1]
        /\ (~call.redo /\ call.outcome = "return" /\ cache[d] = "fresh") =>
              \E key \in Keys, k \in KeysForLength :
                 call.value[1] = FreshMetadata(d, disk[d].files, key, k)

\* A forced rescan replaces a manifest that was written by hand with a
\* different one, which lists the container files
C17_Witness ==
    /\ FreshScan
    /\ call.redo /\ call.wrote
    /\ call.before = <<HandWritten>>
    /\ disk[call.folder_path].manifest # call.before
    /\ call.value[1].files # <<>>

\* The directory's dataset_info.yaml was last written by the scanner
ScannerWritten(d) == disk[d].manifest # <<>> /\ cache[d] \in {"fresh", "stale"}

\* C18: a manifest file written by the scanner never has a null primary_key;
\* a manifest with a null primary_key is returned only by a scan with key
\* None, redo=True and write=False, which writes nothing.
C18_NoNullKeyPersisted ==
    /\ \A d \in Dirs :
          ScannerWritten(d) =>
             /\ yaml_parses(disk[d].manifest[1])
             /\ yaml_safe_load(disk[d].manifest[1]).primary_key # None
    /\ (Scanned /\ call.wrote) => call.value[1].primary_key # None
    /\ (/\ Scanned /\ call.outcome = "return"
        /\ cache[call.folder_path] # "foreign"
        /\ call.value[1].primary_key = None) =>
            /\ call.key = None /\ call.redo /\ ~call.write
            /\ ManifestUntouched

\* A scan without a key returns a manifest with a null primary_key from a
\* directory whose manifest file, written earlier with a key, stays as it is
C18_Witness ==
    /\ Scanned
    /\ call.outcome = "return"
    /\ call.value[1].primary_key = None
    /\ ~call.read_only
    /\ ScannerWritten(call.folder_path)
    /\ yaml_safe_load(disk[call.folder_path].manifest[1]).primary_key = "image"

\* The manifest the call in hand returned answers the call's own request
DescribesRequest ==
    /\ call.value[1].primary_key = call.key
    /\ Truthy(call.hdf5_key_for_length) =>
          \A k \in DOMAIN call.value[1].file_shapes.keys :
             call.value[1].file_shapes.keys[k] = call.hdf5_key_for_length

\* C19: the manifest a scan returns has the scan's key as primary_key and,
\* when hdf5_key_for_length is set, no key in file_shapes but that one; also
\* when redo is false and the manifest is loaded from a file that an earlier
\* scan wrote for another key or another hdf5_key_for_length.
C19_DescribesRequest ==
    (Scanned /\ call.outcome = "return" /\ cache[call.folder_path] # "foreign")
        => DescribesRequest

\* The call in hand passes the key requirement of search_file_tree
KeyGivenOrNotNeeded == call.key # None \/ (call.redo /\ ~call.write)
\* The directory held a dataset_info.yaml that does not parse when the call began
CorruptBefore == call.before # <<>> /\ ~yaml_parses(call.before[1])

\* C14: when the directory's manifest file exists but cannot be parsed, a
\* scan with redo=False (that passes the key requirement) ends with the parse
\* error: it opens no container file and leaves the manifest file as it is.
\* With redo=True the manifest is not read and the scan returns.
C14_CorruptManifest ==
    (Scanned /\ KeyGivenOrNotNeeded /\ CorruptBefore) =>
        IF call.redo
        THEN call.outcome = "return" /\ ~call.loaded
        ELSE call.outcome = "YAMLError" /\ call.opened = <<>> /\ ManifestUntouched

\* The parse error is raised in a directory that holds container files, by a
\* call that would have written the manifest
C14_Witness ==
    /\ Scanned
    /\ call.outcome = "YAMLError"
    /\ call.write /\ ~call.read_only
    /\ DOMAIN disk[call.folder_path].files # {}
    /\ disk[call.folder_path].manifest = <<Garbled>>

----------------------------------------------------------------------------
(* Properties of Folder *)

Constructing == call.op = "Folder"
\* No directory was scanned and every dataset_info.yaml is as it was
NothingDone ==
    /\ call.scans = <<>>
    /\ \A d \in Dirs : disk[d].manifest = call.before[d]
\* A Folder whose key is None fails with the key-required ValueError before
\* anything is scanned or written, whatever its other arguments are
KeylessFolderFails ==
    (Constructing /\ call.key = None) => (call.outcome = "ValueError" /\ NothingDone)

\* C2, as claimed: constructing a Folder with key None always fails with the
\* key-required ValueError, before any directory is scanned or any manifest
\* written; constructing one with a key never raises the key-required error.
C2_AsClaimed ==
    /\ KeylessFolderFails
    /\ (Constructing /\ call.key # None) => call.outcome # "ValueError"

\* C2, amended: constructing a Folder with key None always fails with the
\* key-required ValueError, before any directory is scanned or any manifest
\* written; constructing one with a key never raises the key-required error
\* unless search_file_tree_kwargs sets key to None.
C2_FolderKey ==
    /\ KeylessFolderFails
    /\ (Constructing /\ call.key # None /\ call.search_file_tree_kwargs.key # <<None>>)
          => call.outcome # "ValueError"

\* A Folder without a key fails although its scans would not need one
C2_Witness ==
    /\ Constructing
    /\ call.key = None
    /\ call.search_file_tree_kwargs.redo = <<TRUE>>
    /\ call.search_file_tree_kwargs.write = <<FALSE>>
    /\ call.outcome = "ValueError"

\* The value an option of the scans has: the caller's when
\* search_file_tree_kwargs names the option, else the Folder's (or, for redo
\* and write, the default of search_file_tree)
Overridden(option, own, used) ==
    /\ option # <<>> => used = option[1]
    /\ option = <<>> => used = own

\* C13: a Folder with a key scans the directories of its path list in list
\* order, all of them when the construction succeeds and up to the scan that
\* raises when it fails, each with the same options: the Folder's key,
\* hdf5_key_for_length and read_only, each replaced by the value
\* search_file_tree_kwargs gives for it, if any, and redo and write as
\* search_file_tree_kwargs gives them.
C13_OptionMerge ==
    (Constructing /\ call.key # None) =>
        LET kw == call.search_file_tree_kwargs IN
        /\ Len(call.scans) <= Len(call.folder_path)
        /\ call.outcome = "return" => Len(call.scans) = Len(call.folder_path)
        /\ call.outcome # "return" =>
              /\ call.scans # <<>>
              /\ call.scans[Len(call.scans)].outcome = call.outcome
        /\ \A i \in DOMAIN call.scans :
              /\ call.scans[i].folder_path = call.folder_path[i]
              /\ i < Len(call.scans) => call.scans[i].outcome = "return"
              /\ Overridden(kw.key, call.key, call.scans[i].key)
              /\ Overridden(kw.hdf5_key_for_length, call.hdf5_key_for_length,
                            call.scans[i].hdf5_key_for_length)
              /\ Overridden(kw.read_only, call.read_only, call.scans[i].read_only)
              /\ Overridden(kw.redo, FALSE, call.scans[i].redo)
              /\ Overridden(kw.write, TRUE, call.scans[i].write)

\* A read-only Folder over two directories whose kwargs replace its key, its
\* hdf5_key_for_length and its read_only, so that both manifests are written
C13_Witness ==
    /\ Constructing
    /\ call.outcome = "return"
    /\ Len(call.folder_path) = 2
    /\ call.read_only
    /\ call.search_file_tree_kwargs.read_only = <<FALSE>>
    /\ call.search_file_tree_kwargs.key # <<call.key>>
    /\ call.search_file_tree_kwargs.hdf5_key_for_length # <<call.hdf5_key_for_length>>
    /\ \A i \in DOMAIN call.scans :
          call.scans[i].wrote /\ call.scans[i].value[1].primary_key = "label"

\* No record of the manifest carries an error or a warning
Healthy(metadata) ==
    \A i \in DOMAIN metadata.files :
        "error" \notin DOMAIN metadata.files[i] /\ "warning" \notin DOMAIN metadata.files[i]
\* Two shapes are equal by value
SameShape(s, t) ==
    /\ Len(s.items) = Len(t.items)
    /\ \A j \in DOMAIN s.items : s.items[j].val = t.items[j].val
\* Every key of the manifest's file_shapes has at most one distinct shape
OneShapePerKey(metadata) ==
    \A k \in DOMAIN metadata.file_shapes.items :
        LET shapes == metadata.file_shapes.items[k].items IN
        \A a, b \in DOMAIN shapes : SameShape(shapes[a], shapes[b])
Manifests == folder[1].metadata

\* C8: validate() returns True if and only if, in every manifest of the
\* Folder, no record carries an error or a warning and every key of
\* file_shapes has at most one distinct shape, compared by value.
C8_Validate ==
    call.op = "validate" =>
        call.result = (\A j \in DOMAIN Manifests :
                          Healthy(Manifests[j]) /\ OneShapePerKey(Manifests[j]))

\* validate() returns False for differing shapes alone
C8_Witness ==
    /\ call.op = "validate"
    /\ ~call.result
    /\ \A j \in DOMAIN Manifests : Healthy(Manifests[j])

\* The manifest records at least one shape for key k
HasShape(metadata, k) ==
    DictHas(metadata.file_shapes, k) /\ DictGet(metadata.file_shapes, k).items # <<>>
FirstShape(metadata, k) == DictGet(metadata.file_shapes, k).items[1]
KeyNames ==
    UNION {{Manifests[j].file_shapes.keys[k] : k \in DOMAIN Manifests[j].file_shapes.keys}
              : j \in DOMAIN Manifests}
\* Two manifests of the Folder record different shapes for the same key
ShapesDifferAcrossDirectories ==
    \E i, j \in DOMAIN Manifests : \E k \in KeyNames :
        /\ i < j
        /\ HasShape(Manifests[i], k) /\ HasShape(Manifests[j], k)
        /\ ~SameShape(FirstShape(Manifests[i], k), FirstShape(Manifests[j], k))

\* C9: shape consistency is checked per manifest only: a Folder whose
\* manifests are each consistent and free of errors and warnings validates
\* True even when a key has different shapes in different directories.
C9_PerManifestOnly ==
    (/\ call.op = "validate"
     /\ ShapesDifferAcrossDirectories
     /\ \A j \in DOMAIN Manifests : Healthy(Manifests[j]) /\ OneShapePerKey(Manifests[j]))
        => call.result

\* validate() returns True over two directories whose shapes differ
C9_Witness ==
    /\ call.op = "validate"
    /\ call.result
    /\ ShapesDifferAcrossDirectories

\* C10: get_shapes() maps each key that has a non-empty shape list in some
\* manifest to the first shape of that list in the last manifest that has
\* it; keys with no recorded shape do not appear.
C10_GetShapes ==
    call.op = "get_shapes" =>
        LET keys == {k \in KeyNames : \E j \in DOMAIN Manifests : HasShape(Manifests[j], k)} IN
        /\ DOMAIN call.result = keys
        /\ \A k \in keys :
              LET last == CHOOSE j \in DOMAIN Manifests :
                             /\ HasShape(Manifests[j], k)
                             /\ \A l \in DOMAIN Manifests : l > j => ~HasShape(Manifests[l], k)
              IN  call.result[k] = AsTuple(FirstShape(Manifests[last], k))

\* get_shapes() answers with the later directory's shape where two differ
C10_Witness ==
    /\ call.op = "get_shapes"
    /\ ShapesDifferAcrossDirectories

\* The operations that query a Folder
Queries == {"validate", "get_shapes", "Dataset.validate", "Dataset.get_shapes"}
\* The Folder has one manifest per directory
OnePerDirectory == folder # <<>> => Len(Manifests) = Len(folder[1].folder_paths)
\* The Folder just constructed holds, at each index, what the scan of the
\* directory at that index returned
IndexAligned ==
    (Constructing /\ call.outcome = "return") =>
        /\ folder[1].folder_paths = call.folder_path
        /\ DOMAIN Manifests = DOMAIN call.folder_path
        /\ \A i \in DOMAIN Manifests :
              /\ call.scans[i].folder_path = call.folder_path[i]
              /\ Manifests[i] = call.scans[i].value[1]
\* A Dataset answers as its Folder does
Delegates ==
    /\ call.op = "Dataset.validate" => call.result = validate(Manifests)
    /\ call.op = "Dataset.get_shapes" => call.result = get_shapes(Manifests)
\* A query changes neither the Folder nor the directories
QueryReadsOnly == call'.op \in Queries => (folder' = folder /\ disk' = disk)

\* C20: a constructed Folder has one manifest per directory, index-aligned
\* with its directory list; validate() and get_shapes(), of the Folder or of
\* its Dataset, leave the manifests and the manifest files unchanged, and
\* the Dataset's methods return what the Folder's return.
C20_ManifestsFixed ==
    /\ [](OnePerDirectory /\ IndexAligned /\ Delegates)
    /\ [][QueryReadsOnly]_vars

\* A Dataset over two directories, one with a manifest file and one without,
\* answers get_shapes()
C20_Witness ==
    /\ call.op = "Dataset.get_shapes"
    /\ Len(Manifests) = 2
    /\ DOMAIN call.result # {}
    /\ \E d, e \in Dirs : disk[d].manifest # <<>> /\ disk[e].manifest = <<>>

====
